---- MODULE Spec2Model ----
(***************************************************************************)
(* Model of the transport layer of python3-ptouch (src/ptouch/connection.py):*)
(* one Connection object, either a ConnectionNetwork or a ConnectionUSB,   *)
(* together with the part of the operating system it talks to (sockets,    *)
(* the USB device, the kernel driver bound to the device's interfaces).    *)
(* Every method call is one action; what the call raised or returned is    *)
(* recorded in `last`.                                                     *)
(*                                                                         *)
(* Further specifications of this module, each with its own variable:      *)
(*   SpecLabel  a Label / TextLabel object (src/ptouch/label.py);          *)
(*   SpecJob    one run of main() (src/ptouch/__main__.py) and the print   *)
(*              job it or a caller of the library starts (spec.md 4.4);    *)
(*   SpecEnc    the raster encoder on one line or one bitmap (spec.md 4.2).*)
(* The printer classes are not part of the sources at hand; the job and    *)
(* the encoder follow spec.md.                                             *)
(***************************************************************************)
EXTENDS Integers, Sequences, FiniteSets, TLC

VARIABLES
    variant,                  \* "net" (ConnectionNetwork) or "usb" (ConnectionUSB)
    ctor,                     \* the arguments the constructor was called with
    _socket, host, port, timeout,                        \* ConnectionNetwork fields
    _device, _ep_in, _ep_out, _kernel_driver_detached,   \* ConnectionUSB fields
    socks,                    \* OS: every socket created so far, by creation order
    dev,                      \* OS: descriptor of the printer on the bus
    handleOpen,               \* OS: this process holds the device's handle
    driverActive,             \* OS: interface -> a kernel driver is bound to it
    sessionDetach,            \* interface detached by the latest connect(), or NoIntf
    wire,                     \* payloads that reached the printer
    last,                     \* outcome of the latest call
    label,                    \* one Label / TextLabel object (src/ptouch/label.py)
    job,                      \* one run of main() or of a print job
    enc                       \* one run of the raster encoder on one input

vars == <<variant, ctor, _socket, host, port, timeout,
          _device, _ep_in, _ep_out, _kernel_driver_detached,
          socks, dev, handleOpen, driverActive, sessionDetach, wire, last,
          label, job, enc>>

connVars == <<variant, ctor, _socket, host, port, timeout,
              _device, _ep_in, _ep_out, _kernel_driver_detached,
              socks, dev, handleOpen, driverActive, sessionDetach, wire, last>>

netFields == <<_socket, host, port, timeout>>
usbFields == <<_device, _ep_in, _ep_out, _kernel_driver_detached>>
usbEnv    == <<dev, handleOpen, driverActive, sessionDetach>>

----------------------------------------------------------------------------
(* Bounds of the model *)

MaxSockets == 2     \* sockets one connection may create in a run
MaxWire    == 2     \* payloads delivered to the printer in a run

(* Values *)

None         == 0   \* Python's None, for fields that otherwise hold an object id
TheDevice    == 1   \* the usb.core.Device returned by usb.core.find
EpIn         == 1   \* the bulk IN endpoint descriptor
EpOut        == 2   \* the bulk OUT endpoint descriptor
NoIntf       == -1  \* "no interface": no detach / no attach call was made
NoArg        == -1  \* constructor argument left out
DefaultPort    == 9100
DefaultTimeout == 5
USB_VENDOR_ID  == 1273      \* 0x04F9

Interfaces == {0, 1}                      \* bInterfaceNumber values
Hosts      == {"192.168.1.100"}
PortArgs   == {NoArg, 9101}
TimeoutArgs == {NoArg, 10}
Payloads   == {<<>>, <<65>>}               \* byte strings handed to write()
ReadSizes  == {0, 1, 2}                    \* num_bytes handed to read()
Incoming   == {<<>>, <<65>>, <<65, 66>>}   \* what the printer may have sent
ProductIds == {None, 8293}                 \* printer.USB_PRODUCT_ID (None: undefined)

----------------------------------------------------------------------------
(* Python exception classes and the except-clause dispatch *)

Parent(c) ==
    CASE c = "socket.timeout"          -> "OSError"
      [] c = "socket.gaierror"         -> "OSError"
      [] c = "ConnectionRefusedError"  -> "ConnectionError"
      [] c = "BrokenPipeError"         -> "ConnectionError"
      [] c = "ConnectionResetError"    -> "ConnectionError"
      [] c = "ConnectionAbortedError"  -> "ConnectionError"
      [] c = "ConnectionError"         -> "OSError"
      [] c = "usb.core.USBError"       -> "OSError"
      [] c = "OSError"                 -> "Exception"
      [] OTHER                         -> "Exception"

RECURSIVE IsInstance(_, _)
IsInstance(e, c) ==
    IF e = c THEN TRUE
    ELSE IF e = "Exception" THEN FALSE
    ELSE IsInstance(Parent(e), c)

\* What a socket call may raise: OSError and its subclasses.
SocketErrors == {"socket.timeout", "ConnectionRefusedError", "socket.gaierror",
                 "BrokenPipeError", "ConnectionResetError",
                 "ConnectionAbortedError", "OSError"}

\* Index of the first except clause that catches e; 0 when none does.
Catch(handlers, e) ==
    LET hit == {i \in 1..Len(handlers) :
                   \E c \in handlers[i].classes : IsInstance(e, c)}
    IN IF hit = {} THEN 0
       ELSE CHOOSE i \in hit : \A j \in hit : i <= j

----------------------------------------------------------------------------
(* The record of a call *)

PCE == "PrinterConnectionError"

\* A call of method op that (so far) returned normally and touched nothing.
Call(op) ==
    [op     |-> op,         \* the method called
     prev   |-> last.op,    \* the method called before it
     exc    |-> "none",     \* class of the exception raised, "none" on return
     kind   |-> "none",     \* which message the PrinterConnectionError carries
     cause  |-> "none",     \* original_error
     osErr  |-> "none",     \* what the OS / library call underneath raised
     ret    |-> <<>>,       \* bytes returned
     held   |-> None,       \* socket or device held when the call began
     closes |-> 0,          \* socket.close() / dispose_resources() calls made
     attach |-> NoIntf,     \* interface handed to attach_kernel_driver
     lookup |-> <<>>,       \* <<idVendor, idProduct>> handed to usb.core.find
     io     |-> FALSE]      \* a send or receive was issued on the transport

Raise(call, exc, kind, cause) ==
    [call EXCEPT !.exc = exc, !.kind = kind, !.cause = cause]

----------------------------------------------------------------------------
(* ConnectionNetwork *)

\* __init__(host, port=9100, timeout=5.0)
NetworkInit(h, p, t) ==
    [_socket |-> None,
     host    |-> h,
     port    |-> IF p = NoArg THEN DefaultPort ELSE p,
     timeout |-> IF t = NoArg THEN DefaultTimeout ELSE t]

\* socket.socket(); setsockopt(TCP_NODELAY, 1); settimeout(self.timeout)
NewSocket(t) ==
    [open |-> TRUE, nodelay |-> TRUE, timeout |-> t, peer |-> <<>>, closes |-> 0]

\* socket.close() on socket s
SocketClose(ss, s) == [ss EXCEPT ![s].open = FALSE, ![s].closes = @ + 1]

\* Mutant: the last clause of connect() raises without closing the socket.
ConnectHandlers_LeakOnOSError ==
    << [classes |-> {"socket.timeout"},         kind |-> "ConnectTimeout", cleanup |-> TRUE],
       [classes |-> {"ConnectionRefusedError"}, kind |-> "Refused",        cleanup |-> TRUE],
       [classes |-> {"socket.gaierror"},        kind |-> "UnresolvedHost", cleanup |-> TRUE],
       [classes |-> {"OSError"},                kind |-> "ConnectFailed",  cleanup |-> FALSE] >>

\* The except clauses of connect(), in source order.  Each closes the socket
\* and clears the field before raising.
ConnectHandlers ==
    << [classes |-> {"socket.timeout"},         kind |-> "ConnectTimeout", cleanup |-> TRUE],
       [classes |-> {"ConnectionRefusedError"}, kind |-> "Refused",        cleanup |-> TRUE],
       [classes |-> {"socket.gaierror"},        kind |-> "UnresolvedHost", cleanup |-> TRUE],
       [classes |-> {"OSError"},                kind |-> "ConnectFailed",  cleanup |-> TRUE] >>

\* Mutant: write() with the catch-all clause moved to the front.
WriteHandlers_OSErrorFirst ==
    << [classes |-> {"OSError"},                                  kind |-> "WriteFailed",    cleanup |-> FALSE],
       [classes |-> {"socket.timeout"},                           kind |-> "WriteTimeout",   cleanup |-> FALSE],
       [classes |-> {"BrokenPipeError", "ConnectionResetError"},  kind |-> "ConnectionLost", cleanup |-> FALSE] >>

\* Mutant: read() without the catch-all clause.
ReadHandlers_NoOSError ==
    << [classes |-> {"socket.timeout"},                           kind |-> "ReadTimeout",    cleanup |-> FALSE],
       [classes |-> {"BrokenPipeError", "ConnectionResetError"},  kind |-> "ConnectionLost", cleanup |-> FALSE] >>

\* The except clauses of write() and of read(): neither touches the socket.
WriteHandlers ==
    << [classes |-> {"socket.timeout"},                           kind |-> "WriteTimeout",   cleanup |-> FALSE],
       [classes |-> {"BrokenPipeError", "ConnectionResetError"},  kind |-> "ConnectionLost", cleanup |-> FALSE],
       [classes |-> {"OSError"},                                  kind |-> "WriteFailed",    cleanup |-> FALSE] >>

ReadHandlers ==
    << [classes |-> {"socket.timeout"},                           kind |-> "ReadTimeout",    cleanup |-> FALSE],
       [classes |-> {"BrokenPipeError", "ConnectionResetError"},  kind |-> "ConnectionLost", cleanup |-> FALSE],
       [classes |-> {"OSError"},                                  kind |-> "ReadFailed",     cleanup |-> FALSE] >>

\* A try block whose body raised e, run through `handlers`: the call record.
\* An exception no clause catches leaves the method as it is.
Handled(call, handlers, e) ==
    LET h == Catch(handlers, e)
    IN IF h = 0 THEN Raise(call, e, "none", "none")
       ELSE [Raise(call, PCE, handlers[h].kind, e)
                EXCEPT !.closes = IF handlers[h].cleanup THEN 1 ELSE 0]

\* Mutant: write() and read() without the `is None` guard.
NotConnected_Never(s) == FALSE

\* `if self._socket is None:` at the head of write() and of read()
NotConnected(s) == s = None

\* connect(printer); e is the outcome of socket.connect((host, port))
NetConnect ==
    /\ variant = "net"
    /\ Len(socks) < MaxSockets
    /\ \E e \in {"none"} \cup SocketErrors :
         LET s       == Len(socks) + 1
             created == Append(socks, NewSocket(timeout))
             call    == [Call("connect") EXCEPT !.held = _socket, !.osErr = e]
             res     == Handled(call, ConnectHandlers, e)
         IN IF e = "none"
            THEN /\ socks'   = [created EXCEPT ![s].peer = <<host, port>>]
                 /\ _socket' = s
                 /\ last'    = call
            ELSE /\ socks'   = IF res.closes = 1 THEN SocketClose(created, s) ELSE created
                 /\ _socket' = IF res.closes = 1 THEN None ELSE s
                 /\ last'    = res
    /\ UNCHANGED <<variant, ctor, host, port, timeout, usbFields, usbEnv, wire>>

\* Mutant: a write() that fails closes the socket and forgets it.
NetWrite_DropsSocketOnFailure ==
    /\ variant = "net"
    /\ LET call == [Call("write") EXCEPT !.held = _socket]
       IN IF NotConnected(_socket)
          THEN /\ last' = Raise(call, PCE, "NotConnected", "none")
               /\ UNCHANGED <<wire, socks, _socket>>
          ELSE \E payload \in Payloads, e \in {"none"} \cup SocketErrors :
                 /\ e = "none" => Len(wire) < MaxWire
                 /\ wire' = IF e = "none" THEN Append(wire, payload) ELSE wire
                 /\ socks' = IF e = "none" THEN socks ELSE SocketClose(socks, _socket)
                 /\ _socket' = IF e = "none" THEN _socket ELSE None
                 /\ last' = IF e = "none"
                            THEN [call EXCEPT !.io = TRUE]
                            ELSE Handled([call EXCEPT !.io = TRUE, !.osErr = e],
                                         WriteHandlers, e)
    /\ UNCHANGED <<variant, ctor, host, port, timeout, usbFields, usbEnv>>

\* write(payload); e is the outcome of socket.sendall(payload)
NetWrite ==
    /\ variant = "net"
    /\ LET call == [Call("write") EXCEPT !.held = _socket]
       IN IF NotConnected(_socket)
          THEN /\ last' = Raise(call, PCE, "NotConnected", "none")
               /\ wire' = wire
          ELSE \E payload \in Payloads, e \in {"none"} \cup SocketErrors :
                 /\ e = "none" => Len(wire) < MaxWire
                 /\ wire' = IF e = "none" THEN Append(wire, payload) ELSE wire
                 /\ last' = IF e = "none"
                            THEN [call EXCEPT !.io = TRUE]
                            ELSE Handled([call EXCEPT !.io = TRUE, !.osErr = e],
                                         WriteHandlers, e)
    /\ UNCHANGED <<variant, ctor, netFields, usbFields, usbEnv, socks>>

\* read(num_bytes); e is the outcome of socket.recv(num_bytes)
NetRead ==
    /\ variant = "net"
    /\ LET call == [Call("read") EXCEPT !.held = _socket]
       IN IF NotConnected(_socket)
          THEN last' = Raise(call, PCE, "NotConnected", "none")
          ELSE \/ \E n \in ReadSizes, data \in Incoming :
                    /\ Len(data) <= n
                    /\ last' = [call EXCEPT !.io = TRUE, !.ret = data]
               \/ \E e \in SocketErrors :
                    last' = Handled([call EXCEPT !.io = TRUE, !.osErr = e], ReadHandlers, e)
    /\ UNCHANGED <<variant, ctor, netFields, usbFields, usbEnv, socks, wire>>

\* Mutant: close() closes the socket and keeps the reference to it.
NetClose_KeepsSocket ==
    /\ variant = "net"
    /\ LET call == [Call("close") EXCEPT !.held = _socket]
       IN IF _socket # None
          THEN /\ socks' = SocketClose(socks, _socket)
               /\ last'  = [call EXCEPT !.closes = 1]
          ELSE /\ UNCHANGED socks
               /\ last' = call
    /\ UNCHANGED <<variant, ctor, netFields, usbFields, usbEnv, wire>>

\* close()
NetClose ==
    /\ variant = "net"
    /\ LET call == [Call("close") EXCEPT !.held = _socket]
       IN IF _socket # None
          THEN /\ socks'   = SocketClose(socks, _socket)
               /\ _socket' = None
               /\ last'    = [call EXCEPT !.closes = 1]
          ELSE /\ UNCHANGED <<socks, _socket>>
               /\ last' = call
    /\ UNCHANGED <<variant, ctor, host, port, timeout, usbFields, usbEnv, wire>>

----------------------------------------------------------------------------
(* ConnectionUSB *)

\* __init__()
USBInit ==
    [_device |-> None, _ep_in |-> None, _ep_out |-> None,
     _kernel_driver_detached |-> FALSE]

\* errno values a usb.core.USBError may carry
Errnos == {"EACCES", "EBUSY"}

\* The device calls inside the try block of connect(), in source order.
UsbInitCalls == <<"is_kernel_driver_active", "detach_kernel_driver", "set_configuration">>

\* except usb.core.USBError as e: the message chosen from e.errno
UsbErrorKind(errno) ==
    IF errno = "EACCES" THEN "PermissionDenied" ELSE "InitFailed"

\* `assert intf is not None` on a device without a printer-class interface:
\* AssertionError, or, when assertions are compiled out (python -O),
\* the TypeError of usb.util.find_descriptor(None, ...).
NoInterfaceErrors == {"AssertionError", "TypeError"}

\* connect(printer) up to and including usb.core.find
UsbConnectLookup ==
    /\ variant = "usb"
    /\ \E product_id \in ProductIds :
         LET call == [Call("connect") EXCEPT !.held = _device]
         IN IF product_id = None
            THEN /\ last' = Raise(call, PCE, "NoProductId", "none")
                 /\ UNCHANGED <<_device, sessionDetach>>
            ELSE /\ _device' = None              \* usb.core.find found nothing
                 /\ sessionDetach' = NoIntf
                 /\ last' = Raise([call EXCEPT !.lookup = <<USB_VENDOR_ID, product_id>>],
                                  PCE, "NotFound", "none")
    /\ UNCHANGED <<variant, ctor, netFields, _ep_in, _ep_out, _kernel_driver_detached,
                   socks, dev, handleOpen, driverActive, wire>>

\* The outcome of connect() once the try block is left: `usbErr` is the errno
\* of the USBError the block raised ("none": it raised nothing), `ne` what a
\* failing `assert intf is not None` turns into.
UsbConnectResult(call, usbErr, ne) ==
    IF usbErr # "none"
    THEN Raise([call EXCEPT !.osErr = "usb.core.USBError"],
               PCE, UsbErrorKind(usbErr), "usb.core.USBError")
    ELSE IF ~dev.printerIntf
    THEN Raise(call, ne, "none", "none")
    ELSE IF ~dev.epIn \/ ~dev.epOut
    THEN Raise(call, PCE, "EndpointsMissing", "none")
    ELSE call

\* connect(printer) on a device that was found.  `fail` is the index in
\* UsbInitCalls of the call that raises USBError(errno), 0 when none does.
UsbConnectFound ==
    /\ variant = "usb"
    /\ \E product_id \in ProductIds \ {None}, fail \in 0..Len(UsbInitCalls) :
         LET ifnum    == dev.ifnum              \* self._device[0].interfaces()[0]
             active   == driverActive[ifnum]
             opened   == fail # 1               \* is_kernel_driver_active went through
             detached == active /\ fail \notin {1, 2}
             call     == [Call("connect") EXCEPT !.held = _device,
                                                 !.lookup = <<USB_VENDOR_ID, product_id>>]
         IN /\ fail = 2 => active               \* detach is only called on an active driver
            /\ _device' = TheDevice
            /\ handleOpen' = (handleOpen \/ opened)
            /\ driverActive' = IF detached THEN [driverActive EXCEPT ![ifnum] = FALSE]
                               ELSE driverActive
            /\ _kernel_driver_detached' = (_kernel_driver_detached \/ detached)
            /\ sessionDetach' = IF detached THEN ifnum ELSE NoIntf
            /\ IF fail # 0
               THEN /\ \E errno \in Errnos : last' = UsbConnectResult(call, errno, "none")
                    /\ UNCHANGED <<_ep_in, _ep_out>>
               ELSE IF ~dev.printerIntf
               THEN /\ \E ne \in NoInterfaceErrors : last' = UsbConnectResult(call, "none", ne)
                    /\ UNCHANGED <<_ep_in, _ep_out>>
               ELSE /\ _ep_in'  = (IF dev.epIn  THEN EpIn  ELSE None)
                    /\ _ep_out' = (IF dev.epOut THEN EpOut ELSE None)
                    /\ last' = UsbConnectResult(call, "none", "none")
    /\ UNCHANGED <<variant, ctor, netFields, socks, dev, wire>>

\* write(payload): self._ep_out.write(payload, len(payload)); e is its outcome.
\* An endpoint of a disposed device re-opens the device when it is used.
UsbWrite ==
    /\ variant = "usb"
    /\ LET call == [Call("write") EXCEPT !.held = _device]
       IN IF _ep_out = None
          THEN /\ last' = Raise(call, "AttributeError", "none", "none")
               /\ UNCHANGED <<wire, handleOpen>>
          ELSE \E payload \in Payloads, e \in {"none", "usb.core.USBError"} :
                 /\ e = "none" => Len(wire) < MaxWire
                 /\ wire' = IF e = "none" THEN Append(wire, payload) ELSE wire
                 /\ handleOpen' = (handleOpen \/ e = "none")
                 /\ last' = IF e = "none"
                            THEN [call EXCEPT !.io = TRUE]
                            ELSE Raise([call EXCEPT !.io = TRUE, !.osErr = e],
                                       e, "none", "none")
    /\ UNCHANGED <<variant, ctor, netFields, usbFields, socks, dev, driverActive,
                   sessionDetach>>

\* read(num_bytes): Connection.read, which ConnectionUSB does not override
UsbRead ==
    /\ variant = "usb"
    /\ last' = Raise([Call("read") EXCEPT !.held = _device],
                     "NotImplementedError", "none", "none")
    /\ UNCHANGED <<variant, ctor, netFields, usbFields, usbEnv, socks, wire>>

\* close(); attachOk is the outcome of attach_kernel_driver(0)
UsbClose ==
    /\ variant = "usb"
    /\ LET call == [Call("close") EXCEPT !.held = _device]
       IN IF _device # None
          THEN \E attachOk \in BOOLEAN :
                 /\ handleOpen' = FALSE           \* usb.util.dispose_resources
                 /\ driverActive' = IF _kernel_driver_detached /\ attachOk
                                    THEN [driverActive EXCEPT ![0] = TRUE]
                                    ELSE driverActive
                 /\ _device' = None
                 /\ sessionDetach' = NoIntf
                 /\ last' = [call EXCEPT
                               !.closes = 1,
                               !.attach = IF _kernel_driver_detached THEN 0 ELSE NoIntf,
                               !.osErr  = IF _kernel_driver_detached /\ ~attachOk
                                          THEN "usb.core.USBError" ELSE "none"]
          ELSE /\ UNCHANGED <<handleOpen, driverActive, _device, sessionDetach>>
               /\ last' = call
    /\ UNCHANGED <<variant, ctor, netFields, _ep_in, _ep_out, _kernel_driver_detached,
                   socks, dev, wire>>

----------------------------------------------------------------------------
(* Label and TextLabel (src/ptouch/label.py) *)

Heights     == {32, 70}             \* height handed to prepare(): tape print_pins
Resolutions == {180, 360}           \* resolution_dpi handed to prepare()
Texts       == {<<"A">>, <<"A", "b", "c">>}
FontSizes   == {None, 20}           \* font_size (None: 80% of the height)
MinWidths   == {None, 25}           \* min_width_mm
AlignFlags  == {"LEFT", "HCENTER", "RIGHT", "TOP", "VCENTER", "BOTTOM"}
CENTER      == {"HCENTER", "VCENTER"}
padding     == 10

\* draw.textbbox((0, 0), text, font): the box (x0, y0, x1, y1) of the text in
\* a font of `size` pixels; glyphs are size/2 wide and start below the origin.
TextBBox(text, size) ==
    <<1, size \div 4, 1 + Len(text) * (size \div 2), (size \div 4) + size>>

\* TextLabel.__init__(text, tape, font, font_size, align, min_width_mm)
TextLabelInit(text, fontIsPath, fontSize, font_size, align, min_width_mm) ==
    [cls          |-> "TextLabel",
     text         |-> text,
     fontIsPath   |-> fontIsPath,      \* font is a path string, not a font object
     fontSize     |-> fontSize,        \* size of a pre-loaded font object
     font_size    |-> font_size,
     align        |-> align,
     min_width_mm |-> min_width_mm,
     _image       |-> <<>>]            \* <<>> is None, <<img>> a rendered image

\* Label.__init__(image, tape): the image is given
LabelInit(img) ==
    [cls |-> "Label", text |-> <<>>, fontIsPath |-> FALSE, fontSize |-> None,
     font_size |-> None, align |-> CENTER, min_width_mm |-> None,
     _image |-> <<img>>]

\* The body of TextLabel.prepare past the `already rendered` test.
Render(l, height, resolution_dpi) ==
    LET size   == IF l.fontIsPath
                  THEN (IF l.font_size # None THEN l.font_size
                        ELSE (height * 8) \div 10)
                  ELSE l.fontSize
        bbox   == TextBBox(l.text, size)
        text_width == bbox[3] - bbox[1]
        w0     == text_width + 2 * padding
        minpx  == IF l.min_width_mm # None
                  THEN (l.min_width_mm * resolution_dpi * 10) \div 254
                  ELSE 0
        image_width == IF l.min_width_mm # None /\ minpx > w0 THEN minpx ELSE w0
        text_x == IF "LEFT" \in l.align THEN padding - bbox[1]
                  ELSE IF "RIGHT" \in l.align THEN image_width - padding - bbox[3]
                  ELSE (image_width - bbox[1] - bbox[3]) \div 2
        text_y == IF "TOP" \in l.align THEN 0 - bbox[2]
                  ELSE IF "BOTTOM" \in l.align THEN height - bbox[4]
                  ELSE (height - bbox[2] - bbox[4]) \div 2
    IN [width |-> image_width, height |-> height, text |-> l.text, size |-> size,
        text_x |-> text_x, text_y |-> text_y]

\* Mutant: prepare() without the `already rendered` test.
Prepare_Always(l, height, resolution_dpi, fontLoads) ==
    IF l.cls = "Label" THEN [obj |-> l, exc |-> "none"]
    ELSE IF l.fontIsPath /\ ~fontLoads THEN [obj |-> l, exc |-> "OSError"]
    ELSE [obj |-> [l EXCEPT !._image = <<Render(l, height, resolution_dpi)>>],
          exc |-> "none"]

\* prepare(height, resolution_dpi): Label.prepare does nothing;
\* TextLabel.prepare returns at once when already rendered, lets the error of
\* ImageFont.truetype pass (fontLoads is FALSE), and renders otherwise.
Prepare(l, height, resolution_dpi, fontLoads) ==
    IF l.cls = "Label" THEN [obj |-> l, exc |-> "none"]
    ELSE IF l._image # <<>> THEN [obj |-> l, exc |-> "none"]
    ELSE IF l.fontIsPath /\ ~fontLoads THEN [obj |-> l, exc |-> "OSError"]
    ELSE [obj |-> [l EXCEPT !._image = <<Render(l, height, resolution_dpi)>>],
          exc |-> "none"]

\* The image a plain Label is constructed with.
GivenImage ==
    [width |-> 100, height |-> 50, text |-> <<>>, size |-> None,
     text_x |-> 0, text_y |-> 0]

\* The objects a caller may construct.
LabelObjects ==
    {TextLabelInit(t, p, 24, fs, a, mw) :
        t \in Texts, p \in BOOLEAN, fs \in FontSizes,
        a \in SUBSET AlignFlags, mw \in MinWidths}
    \cup {LabelInit(GivenImage)}

\* No label object is in play.
NoLabel == [obj |-> LabelInit(GivenImage), op |-> "unused", exc |-> "none",
            before |-> <<>>, h |-> None, dpi |-> None,
            first |-> None, firstOk |-> None]

\* label.prepare(height, resolution_dpi)
LabelPrepare ==
    \E h \in Heights, dpi \in Resolutions, fontLoads \in BOOLEAN :
        LET r == Prepare(label.obj, h, dpi, fontLoads)
        IN label' = [obj |-> r.obj, op |-> "prepare", exc |-> r.exc,
                     before |-> label.obj._image, h |-> h, dpi |-> dpi,
                     \* height of the first prepare() call, and of the first
                     \* one that returned
                     first   |-> IF label.first = None THEN h ELSE label.first,
                     firstOk |-> IF label.firstOk = None /\ r.exc = "none"
                                 THEN h ELSE label.firstOk]

\* Mutant: image hands out the field without looking at it.
LabelImage_NoGuard ==
    label' = [label EXCEPT !.op = "image", !.exc = "none",
                           !.before = label.obj._image]

\* label.image: the property of TextLabel raises while nothing is rendered.
LabelImage ==
    label' = [label EXCEPT !.op = "image",
                           !.exc = IF label.obj._image = <<>>
                                   THEN "RuntimeError" ELSE "none",
                           !.before = label.obj._image]

\* A socket object that connect() created and no field refers to any more
\* (connect() stored a newer one over it) is closed whenever the runtime
\* happens to collect it: at once, later, or never.
Finalize ==
    /\ variant = "net"
    /\ \E s \in 1..Len(socks) :
         /\ socks[s].open
         /\ s # _socket
         /\ socks' = [socks EXCEPT ![s].open = FALSE]
    /\ last' = [Call("finalize") EXCEPT !.held = _socket]
    /\ UNCHANGED <<variant, ctor, netFields, usbFields, usbEnv, wire>>

----------------------------------------------------------------------------
(* The command line: main() (src/ptouch/__main__.py) *)

MaxCopies == 3                      \* largest --copies value tried
NoExit    == -1                     \* main() has not returned

\* Words given to --align, and str.lower() on them.
AlignWords == {"left", "center", "right", "top", "bottom", "Left", "middle"}

Lower(w) == IF w = "Left" THEN "left" ELSE w

\* dict.get(key): the flag, or "None" where the key is missing
ALIGN_HORIZONTAL(w) ==
    CASE w = "left"   -> "LEFT"
      [] w = "center" -> "HCENTER"
      [] w = "right"  -> "RIGHT"
      [] OTHER        -> "None"

ALIGN_VERTICAL(w) ==
    CASE w = "top"    -> "TOP"
      [] w = "center" -> "VCENTER"
      [] w = "bottom" -> "BOTTOM"
      [] OTHER        -> "None"

\* Lists of positional text arguments (one label each).
TextLists == {<<>>, << <<"A">> >>, << <<"A">>, <<"A", "b", "c">> >>}

\* What parse_args() can return: --host and --usb exclude each other and one
\* is required; text is a list of zero or more strings.
Args ==
    [image    : BOOLEAN,            \* --image given
     text     : TextLists,          \* positional text strings (one per label)
     font     : BOOLEAN,            \* --font given
     copies   : 0..MaxCopies,       \* --copies
     host     : BOOLEAN,            \* --host given (else --usb)
     full_cut : BOOLEAN,            \* --full-cut
     align    : AlignWords \X AlignWords]

\* Images Image.open can return for a readable file.
OpenedImages ==
    {GivenImage,
     [width |-> 40, height |-> 70, text |-> <<>>, size |-> None,
      text_x |-> 0, text_y |-> 0]}

\* Mutant: half-cut between labels when --full-cut is given.
UseHalfCut_Inverted(args) == args.full_cut

\* use_half_cut = not args.full_cut
UseHalfCut(args) == ~args.full_cut

\* Mutant: the copies repeat the last label instead of the whole list.
Copies_RepeatLast(labels, copies) ==
    IF copies > 1
    THEN [k \in 1..(Len(labels) * copies) |->
            labels[IF k <= Len(labels) THEN k ELSE Len(labels)]]
    ELSE labels

\* if args.copies > 1: labels = labels * args.copies
Copies(labels, copies) ==
    IF copies > 1
    THEN [k \in 1..(Len(labels) * copies) |-> labels[((k - 1) % Len(labels)) + 1]]
    ELSE labels

\* Outcomes of the part of main() before the try statement.
\* align is the flag set handed to create_text_labels, {} when that call is
\* not reached.
Return1(msg)  == [to |-> "return", status |-> 1, exc |-> "none", msg |-> msg,
                  objs |-> <<>>, conn |-> "none", align |-> {}]
Raises(e, c)  == [to |-> "raise", status |-> NoExit, exc |-> e, msg |-> "none",
                  objs |-> <<>>, conn |-> c, align |-> {}]
ToPrint(objs) == [to |-> "print", status |-> NoExit, exc |-> "none", msg |-> "none",
                  objs |-> objs, conn |-> "new", align |-> {}]

\* main() from the argument checks to the label list.  imageOpens and opened
\* are what Image.open does with the file named by --image.
MainPrologue(args, imageOpens, opened) ==
    LET h_align == ALIGN_HORIZONTAL(Lower(args.align[1]))
        v_align == ALIGN_VERTICAL(Lower(args.align[2]))
    IN
    IF args.image /\ args.text # <<>> THEN Return1("both text and image")
    ELSE IF ~args.image /\ args.text = <<>> THEN Return1("neither text nor image")
    ELSE IF args.text # <<>> /\ ~args.font THEN Return1("font required")
    ELSE IF args.copies < 1 THEN Return1("copies")
    ELSE IF ~args.host
        \* ConnectionUSB(printer_class): __init__ takes no argument
        THEN Raises("TypeError", "none")
    ELSE IF args.image
        THEN IF ~imageOpens THEN Raises("OSError", "new")
             ELSE ToPrint(<<LabelInit(opened)>>)
    ELSE IF h_align = "None" THEN Return1("horizontal alignment")
    ELSE IF v_align = "None" THEN Return1("vertical alignment")
        \* align = h_align | v_align; create_text_labels calls
        \* TextLabel(text, tape_class, font_path=...): no such parameter
    ELSE [Raises("TypeError", "new") EXCEPT !.align = {h_align, v_align}]

----------------------------------------------------------------------------
(* The print job: printSingle / printBatch of the orchestrator (spec.md 4.4).
   The connection of a job is seen through the Connection contract only:
   connect, write, read and close, each of which may fail. *)

MaxLabels == 3                      \* longest label list before copies
MaxJobLen == 4                      \* longest job (labels times copies)
PrintPins == 70                     \* print_pins of the tape in the printer
JobDpi    == 180                    \* resolution the job renders at

\* Device conditions a status reply can flag.
StatusFlags == {"NoMedia", "CoverOpen", "CutterJam", "PowerFault", "Overheating"}

\* Mutant: a cutter jam does not stop the batch.
FatalFlags_NoCutterJam == {"NoMedia", "CoverOpen"}

\* The conditions that abort the rest of a batch.
FatalFlags == {"NoMedia", "CoverOpen", "CutterJam"}

\* Decoded replies tried: clean, each fatal flag, an informational flag, a mix.
StatusReplies ==
    {{}, {"NoMedia"}, {"CoverOpen"}, {"CutterJam"}, {"Overheating"},
     {"CoverOpen", "PowerFault"}}

\* One entry of the record of what the job did on its connection.
Ev(ev) == [ev |-> ev, i |-> 0, label |-> 0, cut |-> "none", block |-> <<>>,
           flags |-> {}]

\* The raster block of a bitmap: the encoder is a function of its input.
RasterBlock(img) == <<img>>

\* The cut directive after label i of n.
CutDirective(i, n, halfCutBetween) ==
    IF i = n THEN "full-cut-and-eject"
    ELSE IF halfCutBetween THEN "half-cut" ELSE "full-cut"

\* Mutant: a failure is returned with the connection left as it is.
Fail_NoClose(j, err, flags) ==
    [j EXCEPT !.phase = "Failed", !.error = err, !.flags = flags]

\* Any state -> Failed(reason): the connection is closed, then the error returned.
Fail(j, err, flags) ==
    [j EXCEPT !.phase = "Failed", !.error = err, !.flags = flags,
              !.conn = "closed", !.log = Append(@, Ev("close"))]

\* The label objects a caller of the library hands to a job: a text label
\* with a font path, a text label with a font object, an image of the tape's
\* height and an image of another height.
JobObjects ==
    << TextLabelInit(<<"A">>, TRUE, 24, None, CENTER, None),
       LabelInit([width |-> 40, height |-> PrintPins, text |-> <<>>, size |-> None,
                  text_x |-> 0, text_y |-> 0]),
       LabelInit(GivenImage) >>

DefaultArgs ==
    [image |-> FALSE, text |-> <<>>, font |-> FALSE, copies |-> 1, host |-> TRUE,
     full_cut |-> FALSE, align |-> <<"center", "center">>]

\* A job that has not begun.
NewJob(entry, args, objs, base, halfCut, single) ==
    [entry |-> entry, args |-> args, phase |-> "Idle",
     objs |-> objs, base |-> base, labels |-> Copies(base, args.copies),
     halfCut |-> halfCut, single |-> single,
     i |-> 0, log |-> <<>>, error |-> "none", flags |-> {}, conn |-> "new",
     exit |-> NoExit, raised |-> "none", msg |-> "none", align |-> {}]

NoJob == [NewJob("none", DefaultArgs, <<>>, <<1>>, FALSE, FALSE) EXCEPT
            !.phase = "unused", !.conn = "none"]

\* Idle -> Connected
JobConnect ==
    /\ job.phase = "Idle"
    /\ \E ok \in BOOLEAN :
         job' = IF ok
                THEN [job EXCEPT !.phase = "Connected", !.conn = "open",
                                 !.log = Append(@, Ev("connect"))]
                ELSE Fail([job EXCEPT !.log = Append(@, Ev("connect-failed"))],
                          "ConnectionError", {})

\* Mutant: the job goes on without writing the reset/initialize sequence.
JobInitialize_NoReset ==
    /\ job.phase = "Connected"
    /\ \E ok \in BOOLEAN :
         job' = IF ok
                THEN [job EXCEPT !.phase = "Initialized"]
                ELSE Fail(job, "ConnectionError", {})

\* Connected -> Initialized: the reset/initialize sequence is written
JobInitialize ==
    /\ job.phase = "Connected"
    /\ \E ok \in BOOLEAN :
         job' = IF ok
                THEN [job EXCEPT !.phase = "Initialized",
                                 !.log = Append(@, Ev("init"))]
                ELSE Fail(job, "ConnectionError", {})

\* Initialized / Cutting(i-1) -> Sending(i): label i is rendered, encoded and
\* its raster block written, followed by its cut directive.
JobSend ==
    /\ job.phase \in {"Initialized", "Cutting"}
    /\ job.i < Len(job.labels)
    /\ \E fontLoads \in BOOLEAN, writeOk \in BOOLEAN :
         LET i   == job.i + 1
             id  == job.labels[i]
             r   == Prepare(job.objs[id], PrintPins, JobDpi, fontLoads)
             j   == [job EXCEPT !.i = i, !.objs[id] = r.obj]
             img == r.obj._image[1]
         IN job' =
              IF r.exc # "none" THEN Fail(j, "RenderError", {})
              ELSE IF img.height # PrintPins THEN Fail(j, "ProtocolError", {})
              ELSE IF ~writeOk THEN Fail(j, "ConnectionError", {})
              ELSE [j EXCEPT !.phase = "Sending",
                      !.log = @ \o << [Ev("block") EXCEPT !.i = i, !.label = id,
                                          !.block = RasterBlock(img)],
                                      [Ev("cut") EXCEPT !.i = i, !.label = id,
                                          !.cut = CutDirective(i, Len(job.labels),
                                                               job.halfCut)] >>]

\* Sending(i) -> Printing(i): the status request is written
JobRequestStatus ==
    /\ job.phase = "Sending"
    /\ \E ok \in BOOLEAN :
         job' = IF ok
                THEN [job EXCEPT !.phase = "Printing",
                                 !.log = Append(@, [Ev("status-request") EXCEPT !.i = job.i])]
                ELSE Fail(job, "ConnectionError", {})

\* Printing(i) -> Cutting(i) / Ejecting: the reply is read and decoded
JobReadStatus ==
    /\ job.phase = "Printing"
    /\ \/ job' = Fail(job, "ConnectionError", {})          \* read failed
       \/ job' = Fail(job, "ProtocolError", {})            \* malformed reply
       \/ \E flags \in StatusReplies :
            LET j == [job EXCEPT !.log = Append(@, [Ev("reply") EXCEPT !.i = job.i,
                                                       !.flags = flags])]
            IN job' = IF flags \cap FatalFlags # {}
                      THEN Fail(j, "DeviceError", flags)
                      ELSE [j EXCEPT !.phase = IF job.i < Len(job.labels)
                                               THEN "Cutting" ELSE "Ejecting"]

\* Ejecting(last) -> Done: the connection is closed and the result returned
JobFinish ==
    /\ job.phase = "Ejecting"
    /\ job' = [job EXCEPT !.phase = "Done", !.conn = "closed",
                          !.log = Append(@, Ev("close"))]

\* main() up to the try statement
MainRun ==
    /\ job.phase = "Args"
    /\ \E imageOpens \in BOOLEAN, opened \in OpenedImages :
         LET m == MainPrologue(job.args, imageOpens, opened)
         IN job' =
              IF m.to = "print"
              THEN LET j == NewJob("cli", job.args, m.objs, <<1>>,
                                   UseHalfCut(job.args), FALSE)
                   IN \* num_labels == 1 selects print(), else print_multi()
                      [j EXCEPT !.single = (Len(j.labels) = 1)]
              ELSE [job EXCEPT !.phase = "Exit", !.exit = m.status,
                               !.raised = m.exc, !.msg = m.msg, !.conn = m.conn,
                               !.align = m.align]

\* main(): the try statement around the print call returns 0 or 1
MainReturn ==
    /\ job.entry = "cli"
    /\ job.phase \in {"Done", "Failed"}
    /\ job.exit = NoExit
    /\ job' = [job EXCEPT !.exit = IF job.phase = "Done" THEN 0 ELSE 1,
                          !.msg  = IF job.phase = "Done" THEN "Done." ELSE job.error]

\* Label lists handed to the library directly.
LabelLists ==
    UNION {[1..n -> 1..Len(JobObjects)] : n \in 1..MaxLabels}

----------------------------------------------------------------------------
(* The raster encoder (spec.md 4.2): packing of image columns into raster
   lines, run-length compression of a line, framing as raster commands. *)

MaxSegs == 2                        \* segments a test line is built from
MaxRun  == 128                      \* longest run and longest literal of one pair

\* Test lines are built from segments: a run of one byte, or a ramp of
\* bytes each different from the one before it.
SegCounts == {1, 2, 3, 128, 129}
Segments  ==
    [kind : {"run"}, byte : {0, 255}, count : SegCounts]
    \cup [kind : {"ramp"}, byte : {0}, count : SegCounts]

Expand(seg) ==
    IF seg.kind = "run"
    THEN [k \in 1..seg.count |-> seg.byte]
    ELSE [k \in 1..seg.count |-> (seg.byte + k - 1) % 256]

RECURSIVE ExpandAll(_)
ExpandAll(segs) ==
    IF segs = <<>> THEN <<>> ELSE Expand(Head(segs)) \o ExpandAll(Tail(segs))

Lines == {ExpandAll(segs) : segs \in UNION {[1..n -> Segments] : n \in 0..MaxSegs}}

\* Number of bytes equal to line[p] from position p on, at most MaxRun.
RECURSIVE RunLen(_, _, _)
RunLen(line, p, k) ==
    IF p + k <= Len(line) /\ line[p + k] = line[p] /\ k < MaxRun
    THEN RunLen(line, p, k + 1)
    ELSE k

\* Number of bytes from position p on up to the next start of a run, at
\* most MaxRun.
RECURSIVE LitLen(_, _, _)
LitLen(line, p, k) ==
    IF /\ p + k <= Len(line)
       /\ k < MaxRun
       /\ ~(p + k < Len(line) /\ line[p + k] = line[p + k + 1])
    THEN LitLen(line, p, k + 1)
    ELSE k

\* The line cut into runs of 2..128 identical bytes and literals of 1..128.
RECURSIVE Chunks(_, _)
Chunks(line, p) ==
    IF p > Len(line) THEN <<>>
    ELSE LET r == RunLen(line, p, 1)
             l == LitLen(line, p, 1)
         IN IF r >= 2
            THEN << [kind |-> "run", count |-> r, bytes |-> <<line[p]>>] >>
                     \o Chunks(line, p + r)
            ELSE << [kind |-> "literal", count |-> l,
                     bytes |-> SubSeq(line, p, p + l - 1)] >>
                     \o Chunks(line, p + l)

\* A run is written as (negative count, byte), a literal as (count, bytes).
RECURSIVE Flatten(_)
Flatten(chunks) ==
    IF chunks = <<>> THEN <<>>
    ELSE LET c == Head(chunks)
         IN (IF c.kind = "run" THEN <<0 - c.count>> \o c.bytes
                               ELSE <<c.count>> \o c.bytes)
            \o Flatten(Tail(chunks))

Compress(line) == Flatten(Chunks(line, 1))

\* Reading the pairs back, from position p of the data.
RECURSIVE Decompress(_, _)
Decompress(data, p) ==
    IF p > Len(data) THEN <<>>
    ELSE LET h == data[p]
         IN IF h < 0
            THEN [k \in 1..(0 - h) |-> data[p + 1]] \o Decompress(data, p + 2)
            ELSE SubSeq(data, p + 1, p + h) \o Decompress(data, p + h + 1)

\* Mutant: with compression on, every line is sent compressed.
SendLine_AlwaysCompressed(line, compression) ==
    IF compression
    THEN [form |-> "compressed", data |-> Compress(line)]
    ELSE [form |-> "raw", data |-> line]

\* The payload of one raster-transfer command: compressed only when that is
\* strictly shorter than the raw line.
SendLine(line, compression) ==
    IF compression /\ Len(Compress(line)) < Len(line)
    THEN [form |-> "compressed", data |-> Compress(line)]
    ELSE [form |-> "raw", data |-> line]

\* What the device reads out of the payload.
ReceiveLine(sent) ==
    IF sent.form = "compressed" THEN Decompress(sent.data, 1) ELSE sent.data

\* Tape geometries and bitmaps tried.  A bitmap is its size and a pattern.
Geometries ==
    {[left_pins |-> 10, print_pins |-> 100, right_pins |-> 18],
     [left_pins |-> 4,  print_pins |-> 8,   right_pins |-> 4],
     [left_pins |-> 0,  print_pins |-> 16,  right_pins |-> 0]}

Patterns == {"black", "white", "stripes", "corner"}

Bitmaps == [width : {1, 2, 40}, height : {8, 16, 100}, pattern : Patterns]

\* Pixel of column c, row r (both from 0) is black.
Pixel(bmp, c, r) ==
    CASE bmp.pattern = "black"   -> TRUE
      [] bmp.pattern = "white"   -> FALSE
      [] bmp.pattern = "stripes" -> r % 2 = 0
      [] OTHER                   -> c = 0 /\ r = 0

\* Mutant: the pixels are packed from pin 0, without the left_pins offset.
PinBit_NoOffset(bmp, geom, c, p) ==
    IF p < geom.print_pins THEN Pixel(bmp, c, p) ELSE FALSE

\* Pin p of the head (from 0) is driven for column c: only pins of the
\* printable range carry pixels, the others are zero.
PinBit(bmp, geom, c, p) ==
    /\ p >= geom.left_pins
    /\ p < geom.left_pins + geom.print_pins
    /\ Pixel(bmp, c, p - geom.left_pins)

HeadPins(geom) == geom.left_pins + geom.print_pins + geom.right_pins

\* The bits of eight pins as one byte, most significant bit first.
PackByte(bmp, geom, c, k) ==
    LET bit(b) == IF PinBit(bmp, geom, c, 8 * k + b) THEN 1 ELSE 0
    IN 128 * bit(0) + 64 * bit(1) + 32 * bit(2) + 16 * bit(3)
       + 8 * bit(4) + 4 * bit(5) + 2 * bit(6) + bit(7)

\* The raster line of column c.
PackColumn(bmp, geom, c) ==
    [k \in 1..(HeadPins(geom) \div 8) |-> PackByte(bmp, geom, c, k - 1)]

\* The raster-transfer commands of a bitmap, one per column; a bitmap whose
\* height is not print_pins, or without a column, is refused.
EncodeRaster(bmp, geom, compression) ==
    IF bmp.height # geom.print_pins \/ bmp.width < 1
    THEN [error |-> "ProtocolError", cmds |-> <<>>]
    ELSE [error |-> "none",
          cmds  |-> [c \in 1..bmp.width |->
                        SendLine(PackColumn(bmp, geom, c - 1), compression)]]

NoEnc ==
    [kind |-> "none", step |-> "unused", compression |-> FALSE, line |-> <<>>,
     bmp |-> [width |-> 1, height |-> 8, pattern |-> "white"],
     geom |-> [left_pins |-> 0, print_pins |-> 16, right_pins |-> 0],
     sent |-> [form |-> "raw", data |-> <<>>], received |-> <<>>,
     out |-> [error |-> "none", cmds |-> <<>>]]

\* One raster line is framed for sending.
EncSendLine ==
    /\ enc.kind = "line" /\ enc.step = "new"
    /\ enc' = [enc EXCEPT !.step = "sent",
                          !.sent = SendLine(enc.line, enc.compression)]

\* The device reads the line out of the command.
EncReceiveLine ==
    /\ enc.kind = "line" /\ enc.step = "sent"
    /\ enc' = [enc EXCEPT !.step = "received",
                          !.received = ReceiveLine(enc.sent)]

\* A bitmap is encoded for a tape.
EncEncodeBitmap ==
    /\ enc.kind = "bitmap" /\ enc.step = "new"
    /\ enc' = [enc EXCEPT !.step = "encoded",
                          !.out = EncodeRaster(enc.bmp, enc.geom, enc.compression)]

----------------------------------------------------------------------------
(* The system *)

InitNet ==
    \E h \in Hosts, p \in PortArgs, t \in TimeoutArgs :
        LET c == NetworkInit(h, p, t)
        IN /\ variant = "net"
           /\ ctor = [host |-> h, port |-> p, timeout |-> t]
           /\ _socket = c._socket /\ host = c.host /\ port = c.port /\ timeout = c.timeout
           /\ _device = None /\ _ep_in = None /\ _ep_out = None
           /\ _kernel_driver_detached = FALSE
           /\ dev = [ifnum |-> 0, printerIntf |-> TRUE, epIn |-> TRUE, epOut |-> TRUE]
           /\ driverActive = [i \in Interfaces |-> FALSE]

InitUsb ==
    /\ variant = "usb"
    /\ ctor = [host |-> "", port |-> NoArg, timeout |-> NoArg]
    /\ _socket = None /\ host = "" /\ port = None /\ timeout = None
    /\ _device = USBInit._device /\ _ep_in = USBInit._ep_in /\ _ep_out = USBInit._ep_out
    /\ _kernel_driver_detached = USBInit._kernel_driver_detached
    /\ dev \in [ifnum : Interfaces, printerIntf : BOOLEAN, epIn : BOOLEAN, epOut : BOOLEAN]
    /\ driverActive \in [Interfaces -> BOOLEAN]

Init ==
    /\ InitNet \/ InitUsb
    /\ socks = <<>>
    /\ handleOpen = FALSE
    /\ sessionDetach = NoIntf
    /\ wire = <<>>
    /\ last = [op |-> "__init__", prev |-> "none", exc |-> "none", kind |-> "none",
               cause |-> "none", osErr |-> "none", ret |-> <<>>, held |-> None,
               closes |-> 0, attach |-> NoIntf, lookup |-> <<>>, io |-> FALSE]
    /\ label = NoLabel /\ job = NoJob /\ enc = NoEnc

Next ==
    \/ NetConnect       /\ UNCHANGED <<label, job, enc>>
    \/ NetWrite         /\ UNCHANGED <<label, job, enc>>
    \/ NetRead          /\ UNCHANGED <<label, job, enc>>
    \/ NetClose         /\ UNCHANGED <<label, job, enc>>
    \/ UsbConnectLookup /\ UNCHANGED <<label, job, enc>>
    \/ UsbConnectFound  /\ UNCHANGED <<label, job, enc>>
    \/ UsbWrite         /\ UNCHANGED <<label, job, enc>>
    \/ UsbRead          /\ UNCHANGED <<label, job, enc>>
    \/ UsbClose         /\ UNCHANGED <<label, job, enc>>
    \/ Finalize         /\ UNCHANGED <<label, job, enc>>

Spec == Init /\ [][Next]_vars

\* No Connection object of this module is in play (the other specifications).
NoConnection ==
    /\ variant = "none"
    /\ ctor = [host |-> "", port |-> NoArg, timeout |-> NoArg]
    /\ _socket = None /\ host = "" /\ port = None /\ timeout = None
    /\ _device = None /\ _ep_in = None /\ _ep_out = None
    /\ _kernel_driver_detached = FALSE
    /\ dev = [ifnum |-> 0, printerIntf |-> TRUE, epIn |-> TRUE, epOut |-> TRUE]
    /\ driverActive = [i \in Interfaces |-> FALSE]
    /\ socks = <<>> /\ handleOpen = FALSE /\ sessionDetach = NoIntf
    /\ wire = <<>>
    /\ last = [op |-> "unused", prev |-> "none", exc |-> "none", kind |-> "none",
               cause |-> "none", osErr |-> "none", ret |-> <<>>, held |-> None,
               closes |-> 0, attach |-> NoIntf, lookup |-> <<>>, io |-> FALSE]

\* One label object and the calls made on it.
InitLabel ==
    /\ NoConnection
    /\ \E l \in LabelObjects :
          label = [obj |-> l, op |-> "__init__", exc |-> "none",
                   before |-> <<>>, h |-> None, dpi |-> None,
                   first |-> None, firstOk |-> None]
    /\ job = NoJob /\ enc = NoEnc

NextLabel ==
    \/ LabelPrepare /\ UNCHANGED <<connVars, job, enc>>
    \/ LabelImage   /\ UNCHANGED <<connVars, job, enc>>

SpecLabel == InitLabel /\ [][NextLabel]_vars

\* One run of main(), or one print job started by a caller of the library.
InitJob ==
    /\ NoConnection
    /\ label = NoLabel /\ enc = NoEnc
    /\ \/ \E a \in Args :
            job = [NewJob("cli", a, <<>>, <<1>>, FALSE, FALSE) EXCEPT
                     !.phase = "Args", !.conn = "none"]
       \/ \E ls \in LabelLists, c \in 1..MaxCopies, hc \in BOOLEAN, single \in BOOLEAN :
            /\ Len(ls) * c <= MaxJobLen
            /\ single => (Len(ls) * c = 1 /\ ~hc)
            /\ job = NewJob("api", [DefaultArgs EXCEPT !.copies = c],
                            JobObjects, ls, hc, single)

NextJob ==
    \/ MainRun          /\ UNCHANGED <<connVars, label, enc>>
    \/ JobConnect       /\ UNCHANGED <<connVars, label, enc>>
    \/ JobInitialize    /\ UNCHANGED <<connVars, label, enc>>
    \/ JobSend          /\ UNCHANGED <<connVars, label, enc>>
    \/ JobRequestStatus /\ UNCHANGED <<connVars, label, enc>>
    \/ JobReadStatus    /\ UNCHANGED <<connVars, label, enc>>
    \/ JobFinish        /\ UNCHANGED <<connVars, label, enc>>
    \/ MainReturn       /\ UNCHANGED <<connVars, label, enc>>

SpecJob == InitJob /\ [][NextJob]_vars

\* One input of the encoder: a raster line, or a bitmap and a tape.
InitEnc ==
    /\ NoConnection
    /\ label = NoLabel /\ job = NoJob
    /\ \/ \E l \in Lines, z \in BOOLEAN :
            enc = [NoEnc EXCEPT !.kind = "line", !.step = "new",
                                !.line = l, !.compression = z]
       \/ \E b \in Bitmaps, g \in Geometries, z \in BOOLEAN :
            enc = [NoEnc EXCEPT !.kind = "bitmap", !.step = "new",
                                !.bmp = b, !.geom = g, !.compression = z]

NextEnc ==
    \/ EncSendLine     /\ UNCHANGED <<connVars, label, job>>
    \/ EncReceiveLine  /\ UNCHANGED <<connVars, label, job>>
    \/ EncEncodeBitmap /\ UNCHANGED <<connVars, label, job>>

SpecEnc == InitEnc /\ [][NextEnc]_vars

----------------------------------------------------------------------------
(* Claims *)

\* C1: on a ConnectionNetwork that holds no socket (never connected, closed,
\* or after a failed connect), write() and read() each raise
\* PrinterConnectionError "Not connected to printer", issue no send and no
\* receive, return nothing, and leave the connection and its sockets as they were.
C1_NotConnectedRaises ==
    [][ (variant = "net" /\ _socket = None /\ last'.op \in {"write", "read"})
          => /\ last'.exc = PCE
             /\ last'.kind = "NotConnected"
             /\ last'.cause = "none"
             /\ ~last'.io
             /\ last'.ret = <<>>
             /\ UNCHANGED <<netFields, socks, wire>> ]_vars

\* C1 witness: a write() right after close() on a connection that had a socket.
C1_Witness ==
    /\ variant = "net"
    /\ last.op = "write" /\ last.prev = "close"
    /\ last.kind = "NotConnected"
    /\ Len(socks) > 0

C4_Claimed_FailedUsbConnectReleases ==
    (variant = "usb" /\ last.op = "connect" /\ last.exc = PCE
       /\ last.kind \in {"PermissionDenied", "InitFailed", "EndpointsMissing"}) =>
        /\ _device = None
        /\ ~handleOpen
        /\ (sessionDetach # NoIntf => driverActive[sessionDetach])

\* C5 (as claimed): ConnectionUSB.connect() returns with both endpoints
\* resolved or raises PrinterConnectionError and nothing else: without
\* USB_PRODUCT_ID before any lookup, not-found when no device matches,
\* permission-denied on a USBError with EACCES, endpoints-missing when the
\* printer-class interface or the IN or the OUT endpoint is absent.
C5_Claimed_UsbConnectErrors ==
    (variant = "usb" /\ last.op = "connect") =>
        /\ last.exc \in {"none", PCE}
        /\ (last.exc = "none" => _ep_in # None /\ _ep_out # None)
        /\ (last.lookup = <<>> <=> last.kind = "NoProductId")
        /\ (last.lookup # <<>> => last.lookup[1] = USB_VENDOR_ID)
        /\ (last.kind = "PermissionDenied" => last.cause = "usb.core.USBError")
        /\ (last.lookup # <<>> /\ last.kind # "NotFound" /\ last.osErr = "none"
              /\ (~dev.printerIntf \/ ~dev.epIn \/ ~dev.epOut)
              => last.exc = PCE /\ last.kind = "EndpointsMissing")

\* C6 (as claimed): close() on a ConnectionUSB hands an interface to
\* attach_kernel_driver exactly when the connect() of the session being
\* closed detached the driver, hands it the interface that was detached,
\* and does not raise when the reattachment fails.
C6_Claimed_ReattachIffDetached ==
    [][ (variant = "usb" /\ last'.op = "close") =>
          /\ (last'.attach # NoIntf <=> sessionDetach # NoIntf)
          /\ (last'.attach # NoIntf => last'.attach = sessionDetach)
          /\ last'.exc = "none" ]_vars

\* C7 (as claimed): ConnectionUSB.write() on a connection that holds no
\* device (before connect(), after close()) raises PrinterConnectionError
\* and issues no send.
C7_Claimed_UsbWriteNotConnected ==
    (variant = "usb" /\ last.op = "write" /\ last.held = None) =>
        /\ last.exc = PCE
        /\ ~last.io

C9_Kind(op, e) ==
    CASE op = "connect" /\ e = "socket.timeout"         -> "ConnectTimeout"
      [] op = "connect" /\ e = "ConnectionRefusedError" -> "Refused"
      [] op = "connect" /\ e = "socket.gaierror"        -> "UnresolvedHost"
      [] op = "connect" /\ e \notin {"socket.timeout", "ConnectionRefusedError",
                                     "socket.gaierror"} -> "ConnectFailed"
      [] op = "write" /\ e = "socket.timeout"           -> "WriteTimeout"
      [] op = "read"  /\ e = "socket.timeout"           -> "ReadTimeout"
      [] op \in {"write", "read"}
           /\ e \in {"BrokenPipeError", "ConnectionResetError"} -> "ConnectionLost"
      [] op = "write" /\ e \notin {"socket.timeout", "BrokenPipeError",
                                   "ConnectionResetError"}     -> "WriteFailed"
      [] op = "read"  /\ e \notin {"socket.timeout", "BrokenPipeError",
                                   "ConnectionResetError"}     -> "ReadFailed"

Held == _socket # None \/ _device # None \/ handleOpen

\* C10 (as claimed): a new connection holds nothing (a ConnectionNetwork with
\* port 9100 and timeout 5 unless given), a resource becomes held only by a
\* connect() that returns, and close() leaves none held.
C10_Claimed_HeldOnlyWhileConnected ==
    /\ [](last.op = "__init__" =>
            /\ ~Held
            /\ (variant = "net" =>
                  /\ port = (IF ctor.port = NoArg THEN 9100 ELSE ctor.port)
                  /\ timeout = (IF ctor.timeout = NoArg THEN 5 ELSE ctor.timeout)))
    /\ [][ /\ (Held' /\ ~Held => last'.op = "connect" /\ last'.exc = "none")
           /\ (last'.op = "close" => ~Held') ]_vars

----------------------------------------------------------------------------
\* C15: once a label holds a rendered bitmap, a prepare() call with any height
\* and any resolution leaves that bitmap as it was.
C15_PrepareIdempotent ==
    (label.op = "prepare" /\ label.before # <<>>)
        => (label.obj._image = label.before /\ label.exc = "none")

\* A second prepare() with another height than the bitmap has was made on a
\* rendered TextLabel.
C15_Witness ==
    /\ label.op = "prepare"
    /\ label.obj.cls = "TextLabel"
    /\ label.before # <<>>
    /\ label.h # label.before[1].height

----------------------------------------------------------------------------
\* C20 (as claimed): after any sequence of connect/write/read/close calls on
\* one ConnectionNetwork at most one socket it created is open, and every
\* open one is the socket the connection holds.
C20_Claimed_AtMostOneOpenSocket ==
    variant = "net" =>
        /\ Cardinality({s \in 1..Len(socks) : socks[s].open}) <= 1
        /\ \A s \in 1..Len(socks) : socks[s].open => _socket = s

----------------------------------------------------------------------------
\* C19 (as claimed): once the arguments are parsed, main() ends by returning
\* an exit status and never by an exception: 0 exactly when printing
\* completed, 1 with a message otherwise.
C19_Claimed_MainReturnsStatus ==
    (job.entry = "cli" /\ (job.phase = "Exit" \/ job.exit # NoExit)) =>
        /\ job.raised = "none"
        /\ job.exit \in {0, 1}
        /\ (job.exit = 0 <=> job.phase = "Done")
        /\ (job.exit = 1 => job.msg # "none")

----------------------------------------------------------------------------
\* Positions in the job's record holding an entry of one kind.
At(ev) == {p \in 1..Len(job.log) : job.log[p].ev = ev}

\* The job has returned its result or its error to the caller.
Returned == job.phase \in {"Done", "Failed"}

\* C11: when a print job, single or batch, hands its result or its error to
\* the caller, it has called close() itself as the last thing it did on the
\* connection, whatever the exit path (success, failed connect, failed
\* render or encode, failed write or read, device error).
C11_JobClosesConnection ==
    Returned =>
        /\ job.conn = "closed"
        /\ job.log # <<>>
        /\ job.log[Len(job.log)].ev = "close"
        /\ (job.exit # NoExit => job.conn = "closed")

\* A batch that failed on a device error at its second label, closed.
C11_Witness ==
    /\ job.phase = "Failed" /\ job.error = "DeviceError"
    /\ job.i = 2 /\ Len(job.labels) > 2
    /\ job.conn = "closed"

\* The cut entries written so far, in order.
Cuts == SelectSeq(job.log, LAMBDA e : e.ev = "cut")

\* C12: the k-th cut directive of a job of N labels is half-cut (full-cut
\* without half-cut-between) for k < N and full-cut-and-eject for k = N; a
\* finished job has written exactly N; the command line asks for half-cut
\* exactly without --full-cut and prints one label by the single-label path.
C12_CutDirectives ==
    LET N == Len(job.labels)
    IN /\ Len(Cuts) <= N
       /\ \A k \in 1..Len(Cuts) :
            Cuts[k].cut = IF k = N THEN "full-cut-and-eject"
                          ELSE IF job.halfCut THEN "half-cut" ELSE "full-cut"
       /\ (job.phase = "Done" => Len(Cuts) = N)
       /\ (job.entry = "cli" /\ job.phase \notin {"Args", "Exit"}) =>
            /\ job.halfCut = ~job.args.full_cut
            /\ job.single = (N = 1)
            /\ N = job.args.copies

\* A finished batch of three labels with half cuts between them.
C12_Witness ==
    /\ job.phase = "Done" /\ Len(job.labels) = 3 /\ job.halfCut
    /\ Len(Cuts) = 3

\* C13: the entry after a label's raster block (and its cut directive) is
\* the status request, and the entry after that the decoded reply, unless
\* the job failed there; after a reply with a fatal flag nothing but the
\* close follows, no later block is written, and the job is Failed with a
\* device error carrying the flags; after any other reply the job is ready
\* to send the next label.
C13_StatusAfterEachLabel ==
    LET log == job.log
        n   == Len(job.log)
    IN \A p \in 1..n :
         /\ (log[p].ev = "block" /\ p + 2 <= n) =>
                log[p + 2].ev \in {"status-request", "close"}
         /\ (log[p].ev = "status-request" /\ p + 1 <= n) =>
                log[p + 1].ev \in {"reply", "close"}
         /\ (log[p].ev = "reply" /\ log[p].flags \cap {"NoMedia", "CoverOpen", "CutterJam"} # {}) =>
                /\ job.phase = "Failed" /\ job.error = "DeviceError"
                /\ job.flags = log[p].flags
                /\ \A q \in (p + 1)..n : log[q].ev = "close"
         /\ (log[p].ev = "reply" /\ log[p].flags \cap {"NoMedia", "CoverOpen", "CutterJam"} = {}
               /\ p = n /\ log[p].i < Len(job.labels)) =>
                job.phase = "Cutting"
         /\ (log[p].ev = "reply" /\ p < n) =>
                log[p + 1].ev \in {"block", "close"}

\* A batch of three or more labels: an informational reply after the first
\* label, the second label sent, a cutter jam reported after it.
C13_Witness ==
    /\ job.phase = "Failed" /\ job.i = 2 /\ Len(job.labels) > 2
    /\ job.flags = {"CutterJam"}
    /\ Cardinality(At("block")) = 2
    /\ \E p \in At("reply") : job.log[p].flags = {"Overheating"}

\* The raster block entries written so far, in order.
Blocks == SelectSeq(job.log, LAMBDA e : e.ev = "block")

\* C14: a job connects at most once, and once before anything is written;
\* the k-th raster block is that of the k-th label of the list; the
\* reset/initialize sequence is written once, before any other command.
C14_OneConnectionInOrder ==
    /\ Cardinality(At("connect") \cup At("connect-failed")) <= 1
    /\ \A p \in At("init") \cup At("block") \cup At("status-request") :
         At("connect") = {1}
    /\ \A k \in 1..Len(Blocks) :
         Blocks[k].i = k /\ Blocks[k].label = job.labels[k]
    /\ Cardinality(At("init")) <= 1
    /\ \A p \in At("block") \cup At("cut") \cup At("status-request") :
         \E q \in At("init") : q < p

\* A finished batch of four labels.
C14_Witness ==
    /\ job.phase = "Done" /\ Len(Blocks) = 4
    /\ Cardinality(At("connect")) = 1

\* Encoding one label on its own: render it at the tape's height, encode.
SingleEncode(l) == RasterBlock(Prepare(l, PrintPins, JobDpi, TRUE).obj._image[1])

----------------------------------------------------------------------------
\* C17: for every raster line, reading back the compressed line gives the
\* line; the compressed line consists of runs of 2..128 identical bytes and
\* literals of 1..128 bytes; the compressed form is sent only when strictly
\* shorter than the raw line, so what is sent is never longer than the raw
\* line, and the device reads the line that was sent.
C17_RoundTrip ==
    (enc.kind = "line" /\ enc.step \in {"sent", "received"}) =>
        LET cs == Chunks(enc.line, 1)
        IN /\ Decompress(Compress(enc.line), 1) = enc.line
           /\ \A k \in 1..Len(cs) :
                /\ cs[k].kind = "run" => cs[k].count \in 2..128
                /\ cs[k].kind = "literal" => cs[k].count \in 1..128
                /\ Len(cs[k].bytes) = (IF cs[k].kind = "run" THEN 1 ELSE cs[k].count)
           /\ (enc.sent.form = "compressed" =>
                 enc.compression /\ Len(enc.sent.data) < Len(enc.line))
           /\ (enc.sent.form = "raw" => enc.sent.data = enc.line)
           /\ Len(enc.sent.data) <= Len(enc.line)
           /\ (enc.step = "received" => enc.received = enc.line)

\* A line longer than one pair can hold, with a literal of 128 bytes and a
\* run of 128 bytes, was sent compressed and read back.
C17_Witness ==
    /\ enc.kind = "line" /\ enc.step = "received"
    /\ enc.sent.form = "compressed"
    /\ \E k \in 1..Len(Chunks(enc.line, 1)) :
         Chunks(enc.line, 1)[k].kind = "literal" /\ Chunks(enc.line, 1)[k].count = 128
    /\ \E k \in 1..Len(Chunks(enc.line, 1)) :
         Chunks(enc.line, 1)[k].kind = "run" /\ Chunks(enc.line, 1)[k].count = 128

\* The example of spec.md 8: a 40 x 100 all-black bitmap, tape geometry
\* 10 / 100 / 18, compression on, encoded.
AllBlackExample ==
    /\ enc.kind = "bitmap" /\ enc.step = "encoded"
    /\ enc.bmp = [width |-> 40, height |-> 100, pattern |-> "black"]
    /\ enc.geom = [left_pins |-> 10, print_pins |-> 100, right_pins |-> 18]
    /\ enc.compression

\* Bit of pin p (from 0) in a raster line.
BitOf(line, p) == (line[(p \div 8) + 1] \div (2 ^ (7 - (p % 8)))) % 2

\* Every pin outside the printable range is zero in every line of the output.
ZeroOutside ==
    \A c \in 1..Len(enc.out.cmds) :
        \A p \in 0..(HeadPins(enc.geom) - 1) :
            (p < enc.geom.left_pins \/ p >= enc.geom.left_pins + enc.geom.print_pins)
                => BitOf(ReceiveLine(enc.out.cmds[c]), p) = 0

----------------------------------------------------------------------------
\* C21: a write() or read() that fails on a connected ConnectionNetwork
\* raises the error of its one send or receive at once, wrapped in a
\* PrinterConnectionError, and leaves the connection as it was: the same
\* socket is held and open, host, port and timeout are unchanged, no socket
\* was closed or created; a held open socket is closed only by close().
C21_FailedIoKeepsConnection ==
    [][ /\ (/\ variant = "net" /\ _socket # None
            /\ last'.op \in {"write", "read"} /\ last'.exc # "none") =>
              /\ UNCHANGED <<_socket, host, port, timeout, socks>>
              /\ socks'[_socket'].open
              /\ last'.exc = PCE
              /\ last'.cause = last'.osErr /\ last'.osErr # "none"
              /\ last'.io
              /\ last'.closes = 0
        /\ (/\ variant = "net" /\ _socket # None
            /\ socks[_socket].open /\ ~socks'[_socket].open) =>
              last'.op = "close" ]_vars

\* A read() failed on a connection whose earlier write() had failed too:
\* the socket of the connect() is still held and open.
C21_Witness ==
    /\ variant = "net"
    /\ last.op = "read" /\ last.prev = "write"
    /\ last.exc = PCE /\ last.kind = "ReadTimeout"
    /\ last.held # None /\ _socket = last.held
    /\ socks[_socket].open
    /\ wire = <<>>

----------------------------------------------------------------------------
\* C22 (as claimed): a TextLabel has no bitmap before its first prepare()
\* call, and image raises RuntimeError there; in every state after that
\* call image returns a bitmap of the height passed to it; a rendered label
\* never becomes unrendered again.
C22_Claimed_RenderedByFirstPrepare ==
    /\ [](label.obj.cls = "TextLabel" =>
            /\ (label.first = None => label.obj._image = <<>>)
            /\ (label.first # None =>
                  /\ label.obj._image # <<>>
                  /\ label.obj._image[1].height = label.first)
            /\ (label.op = "image" =>
                  (label.exc = "RuntimeError" <=> label.first = None)))
    /\ [][label.obj._image # <<>> => label'.obj._image # <<>>]_vars

\* C22 (amended): a TextLabel has no bitmap until the first prepare() call
\* that returns, and image raises RuntimeError until then; a prepare() that
\* raises (the font file cannot be loaded) leaves the label unrendered; from
\* the first prepare() that returns on, image returns the same bitmap, whose
\* height is the height passed to that call.
C22_RenderedByFirstReturningPrepare ==
    /\ [](label.obj.cls = "TextLabel" =>
            /\ (label.firstOk = None <=> label.obj._image = <<>>)
            /\ (label.firstOk # None =>
                  label.obj._image[1].height = label.firstOk)
            /\ (label.op = "image" =>
                  (label.exc = "RuntimeError" <=> label.firstOk = None))
            /\ ((label.op = "prepare" /\ label.exc # "none") =>
                  (label.obj._image = <<>> /\ label.before = <<>>)))
    /\ [][label.obj._image # <<>> => label'.obj._image = label.obj._image]_vars

\* The first prepare() raised, a later one with another height returned, and
\* image was read after it.
C22_Witness ==
    /\ label.obj.cls = "TextLabel"
    /\ label.op = "image" /\ label.exc = "none"
    /\ label.first # None /\ label.firstOk # None
    /\ label.first # label.firstOk
    /\ label.obj._image[1].height = label.firstOk

----------------------------------------------------------------------------
\* The placement a rendered TextLabel must have by the precedence LEFT over
\* RIGHT over centre and TOP over BOTTOM over centre, computed from the
\* bitmap's own width and height.
PlacementOk(l) ==
    (l.cls = "TextLabel" /\ l._image # <<>>) =>
        LET img  == l._image[1]
            bbox == TextBBox(l.text, img.size)
            left   == padding - bbox[1]
            right  == img.width - padding - bbox[3]
            hcent  == (img.width - bbox[1] - bbox[3]) \div 2
            top    == 0 - bbox[2]
            bottom == img.height - bbox[4]
            vcent  == (img.height - bbox[2] - bbox[4]) \div 2
        IN /\ img.text_x = (CASE "LEFT" \in l.align  -> left
                              [] "LEFT" \notin l.align /\ "RIGHT" \in l.align -> right
                              [] OTHER -> hcent)
           /\ img.text_y = (CASE "TOP" \in l.align   -> top
                              [] "TOP" \notin l.align /\ "BOTTOM" \in l.align -> bottom
                              [] OTHER -> vcent)

\* The precedence part of C23 on every label of SpecLabel: it holds.
PlacementPrecedence == PlacementOk(label.obj)

\* A run of main() that asks for text labels and passes the argument checks.
TextRun ==
    /\ job.entry = "cli" /\ job.phase # "Args"
    /\ job.args.text # <<>> /\ ~job.args.image
    /\ job.args.font /\ job.args.copies >= 1

\* Both --align words are known (after lower()).
WordsKnown ==
    /\ Lower(job.args.align[1]) \in {"left", "center", "right"}
    /\ Lower(job.args.align[2]) \in {"top", "center", "bottom"}

\* C23 (as claimed): every rendered label is placed by the precedence LEFT,
\* RIGHT, centre and TOP, BOTTOM, centre; and a run of the command line for
\* text labels either hands on exactly one horizontal and one vertical flag
\* or, for an unknown alignment word, returns 1.
C23_Claimed_OnePlacementPerAxis ==
    /\ PlacementOk(label.obj)
    /\ \A k \in 1..Len(job.objs) : PlacementOk(job.objs[k])
    /\ TextRun =>
         \/ /\ WordsKnown
            /\ Cardinality(job.align \cap {"LEFT", "HCENTER", "RIGHT"}) = 1
            /\ Cardinality(job.align \cap {"TOP", "VCENTER", "BOTTOM"}) = 1
         \/ /\ ~WordsKnown
            /\ job.exit = 1 /\ job.raised = "none"

====
